---- MODULE Spec2Model ----
(***************************************************************************)
(* Belief propagation on factor graphs: the discrete sum-product engine    *)
(* (BeliefPropagation) and the Gaussian engine (GaussianBeliefPropagation),*)
(* with the shared numeric utilities (BeliefUtils).                        *)
(*                                                                         *)
(* Numbers.  A JavaScript number is modelled by an exact rational <<n, d>> *)
(* in lowest terms (d > 0).  A number that lives in log space (the result  *)
(* of Math.log, an argument of Math.exp) is modelled by the record         *)
(* [ln |-> q]: "the logarithm of q"; [ln |-> 0] is -Infinity.  Adding two  *)
(* logs multiplies their arguments, Math.exp gives the argument back.      *)
(* The literal 1e-10 (LOG_EPSILON and the guard of the Gaussian belief) is *)
(* modelled by 1/EpsScale: TLC's integers are 32 bits wide.  Read as a     *)
(* log, the literal x = LOG_EPSILON is the logarithm of e^x = 1 + x (first *)
(* order).                                                                 *)
(***************************************************************************)
EXTENDS Integers, Sequences, FiniteSets, TLC

VARIABLES
    engine,             \* "bayes" | "gaussian": which class was constructed
    graph,              \* this.graph: [nodes, edges] after processGraph
    dampingFactor,      \* this.dampingFactor
    messages,           \* this.messages
    nextMessages,       \* this.nextMessages
    variableMarginals,  \* this.variableMarginals (bayes)
    evidence,           \* this.evidence: Map variable id -> observed value
    currentBelief,      \* node.currentBelief, by node id (bayes)
    logBelief,          \* node.logBelief, by node id (bayes)
    currentMean,        \* node.currentMean, by node id (gaussian)
    currentVariance,    \* node.currentVariance, by node id (gaussian)
    options,            \* the options object given to the constructor
    lastCall,           \* the last public call: arguments, exception, console line, return value
    calls,              \* number of public calls made so far
    sweepsTotal         \* number of sweeps started so far

vars == <<engine, graph, dampingFactor, messages, nextMessages, variableMarginals,
          evidence, currentBelief, logBelief, currentMean, currentVariance,
          options, lastCall, calls, sweepsTotal>>

----------------------------------------------------------------------------
(* Bounds of the exploration *)

MaxCalls == 3
MaxSweeps == 3
MaxIterations == 2
MaxEdges == 3
EpsScale == 10

----------------------------------------------------------------------------
(* Exact rational arithmetic standing for JavaScript's numbers *)

Abs(n) == IF n < 0 THEN -n ELSE n

RECURSIVE GCD(_, _)
GCD(a, b) == IF b = 0 THEN a ELSE GCD(b, a % b)

\* a zero denominator stands for the non-finite numbers (NaN, as 0/0 gives)
NaN == <<0, 0>>
IsNaN(a) == a[2] = 0

Q(n, d) ==
    IF d = 0 THEN NaN
    ELSE LET g == GCD(Abs(n), Abs(d))
             s == IF d < 0 THEN -1 ELSE 1
         IN  <<s * (n \div g), s * (d \div g)>>

Zero == <<0, 1>>
One == <<1, 1>>

QAdd(a, b) ==
    IF IsNaN(a) \/ IsNaN(b) THEN NaN
    ELSE LET g == GCD(a[2], b[2])
         IN  Q(a[1] * (b[2] \div g) + b[1] * (a[2] \div g), (a[2] \div g) * b[2])

QNeg(a) == <<-a[1], a[2]>>

QSub(a, b) == QAdd(a, QNeg(b))

QMul(a, b) ==
    IF IsNaN(a) \/ IsNaN(b) THEN NaN
    ELSE LET g1 == GCD(Abs(a[1]), b[2])
             g2 == GCD(Abs(b[1]), a[2])
         IN  <<(a[1] \div g1) * (b[1] \div g2), (a[2] \div g2) * (b[2] \div g1)>>

\* a / b; a zero divisor gives a non-finite result
QDiv(a, b) == QMul(a, Q(b[2], b[1]))

QAbs(a) == <<Abs(a[1]), a[2]>>

\* a < b, by comparing integer parts and then the reciprocals of the
\* fractional parts (no product is formed)
RECURSIVE QLt(_, _)
QLt(a, b) ==
    IF IsNaN(a) \/ IsNaN(b) THEN FALSE
    ELSE LET qa == a[1] \div a[2]
             qb == b[1] \div b[2]
             ra == a[1] % a[2]
             rb == b[1] % b[2]
         IN  IF qa # qb THEN qa < qb
             ELSE IF rb = 0 THEN FALSE
             ELSE IF ra = 0 THEN TRUE
             ELSE QLt(<<b[2], rb>>, <<a[2], ra>>)

\* Math.max(a, b)
QMax(a, b) == IF IsNaN(a) \/ IsNaN(b) THEN NaN ELSE IF QLt(a, b) THEN b ELSE a

RECURSIVE QSumFrom(_, _)
QSumFrom(s, i) == IF i > Len(s) THEN Zero ELSE QAdd(s[i], QSumFrom(s, i + 1))

\* values.reduce((a, b) => a + b, 0)
QSum(s) == QSumFrom(s, 1)

RECURSIVE QMaxFrom(_, _, _)
QMaxFrom(s, i, m) == IF i > Len(s) THEN m ELSE QMaxFrom(s, i + 1, QMax(m, s[i]))

----------------------------------------------------------------------------
(* F(x) with x evaluated once: const v = x; return F(v) *)

With(x, F(_)) == CHOOSE r \in {F(v) : v \in {x}} : TRUE

----------------------------------------------------------------------------
(* Log-space numbers *)

Log(q) == [ln |-> q]
Exp(l) == l.ln
NegInfinity == [ln |-> Zero]
LogAdd(a, b) == [ln |-> QMul(a.ln, b.ln)]
\* a - b for a finite b
LogSub(a, b) == [ln |-> QDiv(a.ln, b.ln)]

----------------------------------------------------------------------------
(* JavaScript arrays: index i (0-based) of a sequence; a missing slot is   *)
(* undefined, and undefined, 0 and NaN are falsy for the || operator       *)

\* arr[i] || dflt
OrElse(arr, i, dflt) ==
    IF i + 1 > Len(arr) \/ arr[i + 1] = Zero \/ IsNaN(arr[i + 1]) THEN dflt ELSE arr[i + 1]

\* arr.indexOf(x) as a position 1..Len(arr), 0 when absent
IndexOf(arr, x) ==
    IF \E p \in 1..Len(arr) : arr[p] = x
    THEN CHOOSE p \in 1..Len(arr) : arr[p] = x /\ \A r \in 1..(p - 1) : arr[r] # x
    ELSE 0

\* a slot of an array that was never assigned
NoValue == 0 - 1

----------------------------------------------------------------------------
(* BeliefUtils *)

LOG_EPSILON == <<1, EpsScale>>

\* the literal LOG_EPSILON where the code uses it as a log-space number
LogOfLOG_EPSILON == [ln |-> QAdd(One, LOG_EPSILON)]

logSumExp(logValues) ==
    IF Len(logValues) = 0 THEN LogOfLOG_EPSILON
    ELSE LET maxLogValue == Log(QMaxFrom([i \in 1..Len(logValues) |-> logValues[i].ln], 1, Zero))
         IN  IF maxLogValue = NegInfinity THEN LogOfLOG_EPSILON
             ELSE LET sum == QSum([i \in 1..Len(logValues) |->
                                       Exp(LogSub(logValues[i], maxLogValue))])
                  IN  LogAdd(maxLogValue, Log(sum))

normalize(values) ==
    LET sum == QSum(values)
    IN  [i \in 1..Len(values) |-> QDiv(values[i], sum)]

dampMessage(newMsg, prevMsg, damping) ==
    LET damped == [idx \in 1..Len(newMsg) |->
                      QAdd(QMul(damping, newMsg[idx]),
                           QMul(QSub(One, damping), prevMsg[idx]))]
        sum == QSum(damped)
    IN  [i \in 1..Len(damped) |-> QDiv(damped[i], sum)]

RECURSIVE cartesianFrom(_, _, _)
cartesianFrom(arrays, k, acc) ==
    IF k > Len(arrays) THEN acc
    ELSE LET arr == arrays[k]
             n == Len(arr)
         IN  cartesianFrom(arrays, k + 1,
                 [j \in 1..(Len(acc) * n) |->
                     Append(acc[((j - 1) \div n) + 1], arr[((j - 1) % n) + 1])])

\* every combination of one element of each array, first array slowest
cartesianProduct(arrays) == cartesianFrom(arrays, 1, << <<>> >>)

----------------------------------------------------------------------------
(* The graphs handed to the constructors *)

VARIABLE_T == "VARIABLE"
FACTOR_T == "FACTOR"

Pairs01 == {<<a, b>> : a \in 0..1, b \in 0..1}

\* two binary variables joined by one agreement factor
GraphAB ==
    [nodes |-> <<
        [name |-> "A", type |-> VARIABLE_T, possibleValues |-> <<0, 1>>],
        [name |-> "B", type |-> VARIABLE_T, possibleValues |-> <<0, 1>>],
        [name |-> "AB", type |-> FACTOR_T,
         potential |-> [v \in Pairs01 |-> IF v[1] = v[2] THEN <<99, 100>> ELSE <<1, 100>>]]
     >>,
     edges |-> << <<"A", "AB">>, <<"B", "AB">> >>]

\* one variable whose domain is not 0..k-1, with a unary factor
GraphX ==
    [nodes |-> <<
        [name |-> "X", type |-> VARIABLE_T, possibleValues |-> <<1, 2>>],
        [name |-> "U", type |-> FACTOR_T,
         potential |-> [v \in {<<0>>, <<1>>} |-> IF v[1] = 0 THEN <<1, 1>> ELSE <<3, 1>>]]
     >>,
     edges |-> << <<"X", "U">> >>]

\* one binary variable with a unary factor that rules out its first value
GraphZero ==
    [nodes |-> <<
        [name |-> "X", type |-> VARIABLE_T, possibleValues |-> <<0, 1>>],
        [name |-> "U", type |-> FACTOR_T,
         potential |-> [v \in {<<0>>, <<1>>} |-> IF v[1] = 0 THEN Zero ELSE <<1, 2>>]]
     >>,
     edges |-> << <<"X", "U">> >>]

\* two binary variables under the hard constraint a === b ? 1 : 0
GraphEqual ==
    [nodes |-> <<
        [name |-> "A", type |-> VARIABLE_T, possibleValues |-> <<0, 1>>],
        [name |-> "B", type |-> VARIABLE_T, possibleValues |-> <<0, 1>>],
        [name |-> "E", type |-> FACTOR_T,
         potential |-> [v \in Pairs01 |-> IF v[1] = v[2] THEN One ELSE Zero]]
     >>,
     edges |-> << <<"A", "E">>, <<"B", "E">> >>]

\* the Gaussian demonstration graph: A and B share the factor F
GraphGaussAB ==
    [nodes |-> <<
        [name |-> "A", type |-> VARIABLE_T, mean |-> <<2, 1>>, variance |-> <<1, 1>>],
        [name |-> "B", type |-> VARIABLE_T, mean |-> <<0, 1>>, variance |-> <<1, 1>>],
        [name |-> "F", type |-> FACTOR_T,
         potentialMean |-> <<Zero, Zero>>,
         potentialPrecision |-> << <<One, <<-1, 1>> >>, << <<-1, 1>>, One>> >>]
     >>,
     edges |-> << <<"A", "F">>, <<"B", "F">> >>]

\* a Gaussian chain P - A - F - B - R: every variable has two factors
GraphGaussChain ==
    [nodes |-> <<
        [name |-> "A", type |-> VARIABLE_T, mean |-> <<2, 1>>, variance |-> <<1, 1>>],
        [name |-> "B", type |-> VARIABLE_T, mean |-> <<0, 1>>, variance |-> <<1, 2>>],
        [name |-> "P", type |-> FACTOR_T,
         potentialMean |-> << <<1, 1>> >>,
         potentialPrecision |-> << << <<2, 1>> >> >>],
        [name |-> "F", type |-> FACTOR_T,
         potentialMean |-> <<Zero, Zero>>,
         potentialPrecision |-> << <<One, <<-1, 1>> >>, << <<-1, 1>>, One>> >>],
        [name |-> "R", type |-> FACTOR_T,
         potentialMean |-> << Zero >>,
         potentialPrecision |-> << << Zero >> >>]
     >>,
     edges |-> << <<"A", "P">>, <<"A", "F">>, <<"B", "F">>, <<"B", "R">> >>]

\* a Gaussian graph with an informed variable A (factors P and R), a
\* variable B whose factors R and S carry no precision, and a variable C
\* without any edge
GraphGaussIsolated ==
    [nodes |-> <<
        [name |-> "A", type |-> VARIABLE_T, mean |-> <<2, 1>>, variance |-> <<1, 1>>],
        [name |-> "B", type |-> VARIABLE_T, mean |-> <<0, 1>>, variance |-> <<1, 2>>],
        [name |-> "C", type |-> VARIABLE_T, mean |-> <<1, 1>>, variance |-> <<3, 1>>],
        [name |-> "P", type |-> FACTOR_T,
         potentialMean |-> << <<1, 1>> >>,
         potentialPrecision |-> << << <<2, 1>> >> >>],
        [name |-> "R", type |-> FACTOR_T,
         potentialMean |-> <<Zero, Zero>>,
         potentialPrecision |-> << <<One, Zero>>, <<Zero, Zero>> >>],
        [name |-> "S", type |-> FACTOR_T,
         potentialMean |-> << Zero >>,
         potentialPrecision |-> << << Zero >> >>]
     >>,
     edges |-> << <<"A", "P">>, <<"A", "R">>, <<"B", "R">>, <<"B", "S">> >>]

\* names every JavaScript object inherits: `name in nodeDict` holds for them
ObjectPrototypeKeys == {"toString", "constructor", "valueOf", "hasOwnProperty"}

----------------------------------------------------------------------------
(* Factor-graph normalisation: processGraph of both classes *)

HasNode(input, name) == \E i \in 1..Len(input.nodes) : input.nodes[i].name = name

\* name in nodeDict
InNodeDict(input, name) == HasNode(input, name) \/ name \in ObjectPrototypeKeys

\* nodeDict[name]?.id || 0
IdOfName(input, name) ==
    IF HasNode(input, name)
    THEN (CHOOSE i \in 1..Len(input.nodes) : input.nodes[i].name = name) - 1
    ELSE 0

RECURSIVE ExpandEdges(_, _)
ExpandEdges(input, k) ==
    IF k > Len(input.edges) THEN <<>>
    ELSE LET from == input.edges[k][1]
             to == input.edges[k][2]
         IN  (IF InNodeDict(input, from) /\ InNodeDict(input, to)
              THEN << <<IdOfName(input, from), IdOfName(input, to)>>,
                      <<IdOfName(input, to), IdOfName(input, from)>> >>
              ELSE <<>>)
             \o ExpandEdges(input, k + 1)

\* edges.forEach that pushes whatever the kinds of the two nodes are
RECURSIVE PushNeighbors_noKindCheck(_, _, _, _)
PushNeighbors_noKindCheck(input, edges, k, nbrs) ==
    IF k > Len(edges) THEN nbrs
    ELSE PushNeighbors_noKindCheck(input, edges, k + 1,
             [nbrs EXCEPT ![edges[k][1]] = Append(@, edges[k][2])])

\* edges.forEach: push nodesOut[to] on nodesOut[from].neighbors when the kinds differ
RECURSIVE PushNeighbors(_, _, _, _)
PushNeighbors(input, edges, k, nbrs) ==
    IF k > Len(edges) THEN nbrs
    ELSE LET from == edges[k][1]
             to == edges[k][2]
         IN  PushNeighbors(input, edges, k + 1,
                 IF input.nodes[from + 1].type # input.nodes[to + 1].type
                 THEN [nbrs EXCEPT ![from] = Append(@, to)]
                 ELSE nbrs)

processGraph(input, eng) ==
    LET edges == ExpandEdges(input, 1)
        ids == 0..(Len(input.nodes) - 1)
        nbrs == PushNeighbors(input, edges, 1, [i \in ids |-> <<>>])
        out(i) ==
            LET node == input.nodes[i + 1]
            IN  IF eng = "bayes"
                THEN IF node.type = VARIABLE_T
                     THEN [name |-> node.name, id |-> i, type |-> node.type,
                           possibleValues |-> node.possibleValues, neighbors |-> nbrs[i]]
                     ELSE [name |-> node.name, id |-> i, type |-> node.type,
                           potential |-> node.potential, neighbors |-> nbrs[i]]
                ELSE IF node.type = VARIABLE_T
                     THEN [name |-> node.name, id |-> i, type |-> node.type,
                           mean |-> node.mean, variance |-> node.variance,
                           neighbors |-> nbrs[i]]
                     ELSE [name |-> node.name, id |-> i, type |-> node.type,
                           potentialMean |-> node.potentialMean,
                           potentialPrecision |-> node.potentialPrecision,
                           neighbors |-> nbrs[i]]
    IN  [nodes |-> [p \in 1..Len(input.nodes) |-> out(p - 1)], edges |-> edges]

\* the log-potential processGraph derives for a discrete factor
logPotential(factor, values) ==
    LET p == factor.potential[values]
    IN  IF QLt(Zero, p) THEN Log(p) ELSE LogOfLOG_EPSILON

----------------------------------------------------------------------------
(* Access to the normalised graph *)

NodeCount == Len(graph.nodes)
Ids == 0..(NodeCount - 1)
Node(id) == graph.nodes[id + 1]
IsVariable(id) == Node(id).type = VARIABLE_T
IsFactor(id) == Node(id).type = FACTOR_T
VariableIds == {i \in Ids : IsVariable(i)}

\* graph.nodes.find(n => n.name === nodeId): the id, or NoValue
FindNode(nodeId) ==
    IF \E i \in Ids : Node(i).name = nodeId
    THEN CHOOSE i \in Ids : Node(i).name = nodeId
    ELSE NoValue

----------------------------------------------------------------------------
(* BeliefPropagation (discrete).  The operators below take and return the  *)
(* mutable part of the engine as a record st = [messages, nextMessages,    *)
(* variableMarginals, currentBelief, logBelief, evidence].                 *)

Indices(id) == [p \in 1..Len(Node(id).possibleValues) |-> p - 1]

\* [from, to] pairs in the order the loops of the code visit them
RECURSIVE PairsOfKind(_, _)
PairsOfKind(kind, id) ==
    IF id >= NodeCount THEN <<>>
    ELSE (IF Node(id).type = kind
          THEN [k \in 1..Len(Node(id).neighbors) |-> <<id, Node(id).neighbors[k]>>]
          ELSE <<>>)
         \o PairsOfKind(kind, id + 1)

initializeMessages(g) ==
    LET n == Len(g.nodes)
        ids == 0..(n - 1)
        isVar(i) == g.nodes[i + 1].type = VARIABLE_T
        uniform(i) ==
            LET size == Len(g.nodes[i + 1].possibleValues)
            IN  [k \in 1..size |-> Q(1, size)]
        marginals == [i \in ids |-> IF isVar(i) THEN uniform(i) ELSE <<>>]
        \* for (const [from, to] of this.graph.edges): a later edge overwrites
        msg(from, to) ==
            IF \E k \in 1..Len(g.edges) : g.edges[k] = <<from, to>>
            THEN IF isVar(to) THEN marginals[to] ELSE <<One>>
            ELSE <<>>
    IN  [messages |-> [e \in ids \X ids |-> msg(e[1], e[2])],
         nextMessages |-> [e \in ids \X ids |-> <<>>],
         variableMarginals |-> marginals,
         currentBelief |-> [i \in ids |-> IF isVar(i) THEN uniform(i) ELSE <<>>],
         logBelief |-> [i \in ids |->
                           IF isVar(i)
                           THEN [k \in 1..Len(uniform(i)) |-> Log(uniform(i)[k])]
                           ELSE <<>>],
         evidence |-> <<>>]

updateVariableToFactorMessage(st, variable, factor) ==
    IF variable \in DOMAIN st.evidence
    THEN [st EXCEPT !.nextMessages[<<variable, factor>>] = st.messages[<<variable, factor>>]]
    ELSE LET marginal == st.variableMarginals[variable]
             factorMessage == st.messages[<<factor, variable>>]
             logMessage == [p \in 1..Len(marginal) |->
                               LogSub(Log(marginal[p]),
                                      Log(OrElse(factorMessage, p - 1, LOG_EPSILON)))]
             message == [p \in 1..Len(marginal) |-> Exp(logMessage[p])]
         IN  [st EXCEPT !.nextMessages[<<variable, factor>>] = normalize(message)]

\* arr with arr[p] = x, for a position p of arr
SetAt(arr, p, x) == SubSeq(arr, 1, p - 1) \o <<x>> \o SubSeq(arr, p + 1, Len(arr))

\* new Array(n)
RECURSIVE NewArray(_)
NewArray(n) == IF n = 0 THEN <<>> ELSE Append(NewArray(n - 1), NoValue)

\* combo.forEach((v, i) => values[factor.neighbors.indexOf(otherVars[i])] = v)
RECURSIVE AssignCombo(_, _, _, _, _)
AssignCombo(vals, nbrs, otherVars, combo, i) ==
    IF i > Len(combo) THEN vals
    ELSE AssignCombo(SetAt(vals, IndexOf(nbrs, otherVars[i]), combo[i]),
                     nbrs, otherVars, combo, i + 1)

\* the complete assignment built for one value of the target and one combo
Assignment(nbrs, varIndex, valIndex, otherVars, combo) ==
    AssignCombo(SetAt(NewArray(Len(nbrs)), varIndex, valIndex), nbrs, otherVars, combo, 1)

RECURSIVE LogTermSum(_, _, _)
LogTermSum(logTerms, combo, i) ==
    IF i > Len(combo) THEN Log(One)
    ELSE LogAdd(logTerms[i][combo[i] + 1], LogTermSum(logTerms, combo, i + 1))

\* updateFactorToVariableMessage reading the variable-to-factor messages from
\* the buffer being written in this sweep
updateFactorToVariableMessage_readsNext(st, factor, variable) ==
    LET nbrs == Node(factor).neighbors
        varIndex == IndexOf(nbrs, variable)
        otherVars == SelectSeq(nbrs, LAMBDA v : v # variable)
        valIndices == Indices(variable)
        logTerms == [k \in 1..Len(otherVars) |->
                        LET w == otherVars[k]
                            marginal == st.variableMarginals[w]
                            message == st.nextMessages[<<w, factor>>]
                        IN  [p \in 1..Len(marginal) |->
                                LogSub(Log(marginal[p]),
                                       Log(OrElse(message, p - 1, LOG_EPSILON)))]]
        valueCombinations ==
            cartesianProduct([k \in 1..Len(otherVars) |-> Indices(otherVars[k])])
        term(valIndex, combo) ==
            LogAdd(logPotential(Node(factor),
                                Assignment(nbrs, varIndex, valIndex, otherVars, combo)),
                   LogTermSum(logTerms, combo, 1))
        logMessages == [p \in 1..Len(valIndices) |->
                           logSumExp([c \in 1..Len(valueCombinations) |->
                                         term(valIndices[p], valueCombinations[c])])]
        logZ == logSumExp(logMessages)
    IN  [st EXCEPT !.nextMessages[<<factor, variable>>] =
            [p \in 1..Len(logMessages) |-> Exp(LogSub(logMessages[p], logZ))]]

updateFactorToVariableMessage(st, factor, variable) ==
    LET nbrs == Node(factor).neighbors
        varIndex == IndexOf(nbrs, variable)
        otherVars == SelectSeq(nbrs, LAMBDA v : v # variable)
        valIndices == Indices(variable)
        logTerms == [k \in 1..Len(otherVars) |->
                        LET w == otherVars[k]
                            marginal == st.variableMarginals[w]
                            message == st.messages[<<w, factor>>]
                        IN  [p \in 1..Len(marginal) |->
                                LogSub(Log(marginal[p]),
                                       Log(OrElse(message, p - 1, LOG_EPSILON)))]]
        valueCombinations ==
            cartesianProduct([k \in 1..Len(otherVars) |-> Indices(otherVars[k])])
        term(valIndex, combo) ==
            LogAdd(logPotential(Node(factor),
                                Assignment(nbrs, varIndex, valIndex, otherVars, combo)),
                   LogTermSum(logTerms, combo, 1))
        logMessages == [p \in 1..Len(valIndices) |->
                           logSumExp([c \in 1..Len(valueCombinations) |->
                                         term(valIndices[p], valueCombinations[c])])]
        logZ == logSumExp(logMessages)
    IN  [st EXCEPT !.nextMessages[<<factor, variable>>] =
            [p \in 1..Len(logMessages) |-> Exp(LogSub(logMessages[p], logZ))]]

RECURSIVE VariableToFactorAll(_, _, _)
VariableToFactorAll(st, pairs, k) ==
    IF k > Len(pairs) THEN st
    ELSE With(updateVariableToFactorMessage(st, pairs[k][1], pairs[k][2]),
              LAMBDA s : VariableToFactorAll(s, pairs, k + 1))

RECURSIVE FactorToVariableAll(_, _, _)
FactorToVariableAll(st, pairs, k) ==
    IF k > Len(pairs) THEN st
    ELSE With(updateFactorToVariableMessage(st, pairs[k][1], pairs[k][2]),
              LAMBDA s : FactorToVariableAll(s, pairs, k + 1))

updateAllMessages(st) ==
    With(VariableToFactorAll(st, PairsOfKind(VARIABLE_T, 0), 1), LAMBDA s1 :
    With(FactorToVariableAll(s1, PairsOfKind(FACTOR_T, 0), 1), LAMBDA s2 :
        [s2 EXCEPT !.messages = s2.nextMessages, !.nextMessages = s2.messages]))

RECURSIVE LogSum(_, _)
LogSum(logs, k) == IF k > Len(logs) THEN Log(One) ELSE LogAdd(logs[k], LogSum(logs, k + 1))

\* the normalised product of the incoming messages of a variable
NewMarginal(st, v) ==
    LET nbrs == Node(v).neighbors
        logs(p) == [k \in 1..Len(nbrs) |->
                       Log(OrElse(st.messages[<<nbrs[k], v>>], p - 1, One))]
    IN  normalize([p \in 1..Len(Node(v).possibleValues) |-> Exp(LogSum(logs(p), 1))])

updateBeliefs_noSkip(st) ==
    LET upd(v) == dampMessage(NewMarginal(st, v), st.currentBelief[v], dampingFactor)
    IN  [st EXCEPT
            !.currentBelief = [v \in Ids |-> IF IsVariable(v) THEN upd(v) ELSE @[v]],
            !.logBelief = [v \in Ids |->
                              IF IsVariable(v)
                              THEN [p \in 1..Len(upd(v)) |-> Log(upd(v)[p])]
                              ELSE @[v]],
            !.variableMarginals = [v \in Ids |-> IF IsVariable(v) THEN upd(v) ELSE @[v]]]

\* updateBeliefs without line 222: logBelief is not refreshed
updateBeliefs_staleLogBelief(st) ==
    LET touched(v) == IsVariable(v) /\ v \notin DOMAIN st.evidence
        upd(v) == dampMessage(NewMarginal(st, v), st.currentBelief[v], dampingFactor)
    IN  [st EXCEPT
            !.currentBelief = [v \in Ids |-> IF touched(v) THEN upd(v) ELSE @[v]],
            !.variableMarginals = [v \in Ids |-> IF touched(v) THEN upd(v) ELSE @[v]]]

updateBeliefs(st) ==
    LET touched(v) == IsVariable(v) /\ v \notin DOMAIN st.evidence
        upd(v) == dampMessage(NewMarginal(st, v), st.currentBelief[v], dampingFactor)
    IN  [st EXCEPT
            !.currentBelief = [v \in Ids |-> IF touched(v) THEN upd(v) ELSE @[v]],
            !.logBelief = [v \in Ids |->
                              IF touched(v)
                              THEN [p \in 1..Len(upd(v)) |-> Log(upd(v)[p])]
                              ELSE @[v]],
            !.variableMarginals = [v \in Ids |-> IF touched(v) THEN upd(v) ELSE @[v]]]

\* max over the variables and indices of |new belief - old belief|
BeliefMaxDiff(old, new) ==
    LET diffs(v) == [p \in 1..Len(new[v]) |-> QAbs(QSub(new[v][p], old[v][p]))]
        RECURSIVE over(_, _)
        over(id, m) ==
            IF id >= NodeCount THEN m
            ELSE over(id + 1, IF IsVariable(id) THEN QMaxFrom(diffs(id), 1, m) ELSE m)
    IN  over(0, Zero)

Converged(i) == [kind |-> "Converged", iterations |-> i]
DidNotConverge(n) == [kind |-> "Did not converge", iterations |-> n]
NoLine == [kind |-> "none", iterations |-> 0]
\* what a call of a void method evaluates to
Undefined == [kind |-> "undefined", iterations |-> 0]

\* the loop written as do { sweep } while (i < maxIterations): the bound is
\* tested only after a sweep
RECURSIVE RunLoop_doWhile(_, _, _, _, _)
RunLoop_doWhile(st, i, maxIterations, tolerance, diffs) ==
    With(updateAllMessages(st), LAMBDA sent :
    With(updateBeliefs(sent), LAMBDA after :
    With(BeliefMaxDiff(st.currentBelief, after.currentBelief), LAMBDA maxDiff :
        IF QLt(maxDiff, tolerance)
        THEN [st |-> after, sweeps |-> i + 1, diffs |-> Append(diffs, maxDiff),
              threw |-> FALSE, log |-> Converged(i + 1)]
        ELSE IF ~(i + 1 < maxIterations)
        THEN [st |-> after, sweeps |-> i + 1, diffs |-> Append(diffs, maxDiff),
              threw |-> FALSE, log |-> DidNotConverge(maxIterations)]
        ELSE RunLoop_doWhile(after, i + 1, maxIterations, tolerance,
                             Append(diffs, maxDiff)))))

\* the for loop of runIterations from iteration i on; the result carries the
\* state, the sweeps run, each sweep's maxDiff, the console line, and whether
\* an exception left the call
RECURSIVE RunLoop(_, _, _, _, _)
RunLoop(st, i, maxIterations, tolerance, diffs) ==
    IF ~(i < maxIterations)
    THEN [st |-> st, sweeps |-> i, diffs |-> diffs, threw |-> FALSE,
          log |-> DidNotConverge(maxIterations)]
    ELSE With(updateAllMessages(st), LAMBDA sent :
         With(updateBeliefs(sent), LAMBDA after :
         With(BeliefMaxDiff(st.currentBelief, after.currentBelief), LAMBDA maxDiff :
             IF QLt(maxDiff, tolerance)
             THEN [st |-> after, sweeps |-> i + 1, diffs |-> Append(diffs, maxDiff),
                   threw |-> FALSE, log |-> Converged(i + 1)]
             ELSE RunLoop(after, i + 1, maxIterations, tolerance,
                          Append(diffs, maxDiff)))))

runIterations(st, maxIterations, tolerance) == RunLoop(st, 0, maxIterations, tolerance, <<>>)

\* the one-hot vector at index `value`
EvidenceBelief_byIndex(possibleValues, value) ==
    [p \in 1..Len(possibleValues) |-> IF p - 1 = value THEN One ELSE Zero]

\* possibleValues.map(v => v === value ? 1 : 0)
EvidenceBelief(possibleValues, value) ==
    [p \in 1..Len(possibleValues) |-> IF possibleValues[p] = value THEN One ELSE Zero]

\* setEvidence with the guard reduced to `if (!node) return`
setEvidence_noTypeCheck(st, nodeId, value) ==
    LET node == FindNode(nodeId)
    IN  IF node = NoValue THEN st
        ELSE LET belief == IF IsVariable(node)
                           THEN EvidenceBelief(Node(node).possibleValues, value)
                           ELSE <<>>
                 nbrs == Node(node).neighbors
                 out == {<<node, nbrs[k]>> : k \in 1..Len(nbrs)}
             IN  [st EXCEPT
                     !.evidence = [v \in (DOMAIN @) \cup {node} |->
                                      IF v = node THEN value ELSE @[v]],
                     !.currentBelief[node] = belief,
                     !.variableMarginals[node] = belief,
                     !.messages = [e \in DOMAIN @ |-> IF e \in out THEN belief ELSE @[e]],
                     !.nextMessages = [e \in DOMAIN @ |-> IF e \in out THEN belief ELSE @[e]]]

setEvidence(st, nodeId, value) ==
    LET node == FindNode(nodeId)
    IN  IF node = NoValue \/ ~IsVariable(node) THEN st
        ELSE LET belief == EvidenceBelief(Node(node).possibleValues, value)
                 nbrs == Node(node).neighbors
                 out == {<<node, nbrs[k]>> : k \in 1..Len(nbrs)}
             IN  [st EXCEPT
                     !.evidence = [v \in (DOMAIN @) \cup {node} |->
                                      IF v = node THEN value ELSE @[v]],
                     !.currentBelief[node] = belief,
                     !.logBelief[node] = [p \in 1..Len(belief) |->
                                             IF belief[p] = One THEN Log(One)
                                             ELSE NegInfinity],
                     !.variableMarginals[node] = belief,
                     !.messages = [e \in DOMAIN @ |-> IF e \in out THEN belief ELSE @[e]],
                     !.nextMessages = [e \in DOMAIN @ |-> IF e \in out THEN belief ELSE @[e]]]

\* getBeliefs with the guard reduced to `if (!node)`
getBeliefs_noTypeCheck(st, nodeId) ==
    LET node == FindNode(nodeId)
    IN  IF node = NoValue
        THEN [threw |-> TRUE, ret |-> <<"Cannot get beliefs from non-variable node: ", nodeId>>]
        ELSE [threw |-> FALSE, ret |-> st.currentBelief[node]]

\* getBeliefs: [threw, ret]; the error message carries nodeId
getBeliefs(st, nodeId) ==
    LET node == FindNode(nodeId)
    IN  IF node = NoValue \/ ~IsVariable(node)
        THEN [threw |-> TRUE, ret |-> <<"Cannot get beliefs from non-variable node: ", nodeId>>]
        ELSE [threw |-> FALSE, ret |-> st.currentBelief[node]]

getLogBeliefs(st, nodeId) ==
    LET node == FindNode(nodeId)
    IN  IF node = NoValue \/ ~IsVariable(node)
        THEN [threw |-> TRUE, ret |-> <<"Cannot get beliefs from non-variable node: ", nodeId>>]
        ELSE [threw |-> FALSE, ret |-> st.logBelief[node]]

----------------------------------------------------------------------------
(* GaussianBeliefPropagation.  st = [messages, nextMessages, currentMean,  *)
(* currentVariance, evidence, threw]; messages and nextMessages are        *)
(* [mean, precision], each a matrix indexed by <<sender, receiver>>;       *)
(* threw records that an exception has left the current call.              *)

\* the literal 1e-10 added to the total precision in updateBeliefs
PrecisionGuard == <<1, EpsScale>>

Gaussian_initializeMessages(g) ==
    LET n == Len(g.nodes)
        ids == 0..(n - 1)
        isVar(i) == g.nodes[i + 1].type = VARIABLE_T
        sends(i, j) == isVar(i) /\ \E k \in 1..Len(g.nodes[i + 1].neighbors) :
                                       g.nodes[i + 1].neighbors[k] = j
        zeros == [e \in ids \X ids |-> Zero]
    IN  [messages |->
            [mean |-> [e \in ids \X ids |->
                          IF sends(e[1], e[2]) THEN g.nodes[e[1] + 1].mean ELSE Zero],
             precision |-> [e \in ids \X ids |->
                          IF sends(e[1], e[2]) THEN QDiv(One, g.nodes[e[1] + 1].variance)
                          ELSE Zero]],
         nextMessages |-> [mean |-> zeros, precision |-> zeros],
         currentMean |-> [i \in ids |-> IF isVar(i) THEN g.nodes[i + 1].mean ELSE Zero],
         currentVariance |-> [i \in ids |-> IF isVar(i) THEN g.nodes[i + 1].variance
                                            ELSE Zero],
         evidence |-> <<>>,
         threw |-> FALSE]

\* updateVariableToFactorMessage without its branch for evidenced variables
Gaussian_updateVariableToFactorMessage_noEvidence(st, variable, factor) ==
    LET otherNeighbors == SelectSeq(Node(variable).neighbors, LAMBDA n : n # factor)
        precisions == [k \in 1..Len(otherNeighbors) |->
                          st.messages.precision[<<otherNeighbors[k], variable>>]]
        weighted == [k \in 1..Len(otherNeighbors) |->
                        QMul(st.messages.precision[<<otherNeighbors[k], variable>>],
                             st.messages.mean[<<otherNeighbors[k], variable>>])]
    IN  IF Len(otherNeighbors) = 0 THEN [st EXCEPT !.threw = TRUE]
        ELSE LET totalPrecision == QSum(precisions)
                 weightedMean == QSum(weighted)
             IN  [st EXCEPT
                     !.nextMessages.precision[<<variable, factor>>] = totalPrecision,
                     !.nextMessages.mean[<<variable, factor>>] =
                         IF QLt(Zero, totalPrecision)
                         THEN QDiv(weightedMean, totalPrecision) ELSE Zero]

Gaussian_updateVariableToFactorMessage(st, variable, factor) ==
    IF variable \in DOMAIN st.evidence
    THEN [st EXCEPT
             !.nextMessages.mean[<<variable, factor>>] = st.evidence[variable].mean,
             !.nextMessages.precision[<<variable, factor>>] =
                 QDiv(One, st.evidence[variable].variance)]
    ELSE LET otherNeighbors == SelectSeq(Node(variable).neighbors, LAMBDA n : n # factor)
             precisions == [k \in 1..Len(otherNeighbors) |->
                               st.messages.precision[<<otherNeighbors[k], variable>>]]
             weighted == [k \in 1..Len(otherNeighbors) |->
                             QMul(st.messages.precision[<<otherNeighbors[k], variable>>],
                                  st.messages.mean[<<otherNeighbors[k], variable>>])]
         IN  \* reduce((p, c) => p + c) of an empty array raises a TypeError
             IF Len(otherNeighbors) = 0 THEN [st EXCEPT !.threw = TRUE]
             ELSE LET totalPrecision == QSum(precisions)
                      weightedMean == QSum(weighted)
                  IN  [st EXCEPT
                          !.nextMessages.precision[<<variable, factor>>] = totalPrecision,
                          !.nextMessages.mean[<<variable, factor>>] =
                              IF QLt(Zero, totalPrecision)
                              THEN QDiv(weightedMean, totalPrecision) ELSE Zero]

Gaussian_updateFactorToVariableMessage(st, factor, variable) ==
    LET nbrs == Node(factor).neighbors
        idx == IndexOf(nbrs, variable)
        n == Len(nbrs)
        Lambda == Node(factor).potentialPrecision
        mu == Node(factor).potentialMean
        eta == [r \in 1..Len(Lambda) |->
                   QSum([c \in 1..Len(mu) |-> QMul(Lambda[r][c], mu[c])])]
        precSum == QSum([j \in 1..n |->
                       IF j = idx THEN Zero
                       ELSE QMul(Lambda[idx][j], st.messages.mean[<<nbrs[j], factor>>])])
        precision == Lambda[idx][idx]
        meanNumerator == QSub(eta[idx], precSum)
    IN  [st EXCEPT
            !.nextMessages.precision[<<factor, variable>>] = precision,
            !.nextMessages.mean[<<factor, variable>>] =
                IF QLt(Zero, precision) THEN QDiv(meanNumerator, precision) ELSE Zero]

RECURSIVE Gaussian_VariableToFactorAll(_, _, _)
Gaussian_VariableToFactorAll(st, pairs, k) ==
    IF k > Len(pairs) \/ st.threw THEN st
    ELSE With(Gaussian_updateVariableToFactorMessage(st, pairs[k][1], pairs[k][2]),
              LAMBDA s : Gaussian_VariableToFactorAll(s, pairs, k + 1))

RECURSIVE Gaussian_FactorToVariableAll(_, _, _)
Gaussian_FactorToVariableAll(st, pairs, k) ==
    IF k > Len(pairs) THEN st
    ELSE With(Gaussian_updateFactorToVariableMessage(st, pairs[k][1], pairs[k][2]),
              LAMBDA s : Gaussian_FactorToVariableAll(s, pairs, k + 1))

\* the damping loop of updateAllMessages, for one component
Gaussian_damp(old, new) ==
    QAdd(QMul(dampingFactor, old), QMul(QSub(One, dampingFactor), new))

Gaussian_updateAllMessages(st) ==
    With(Gaussian_VariableToFactorAll(st, PairsOfKind(VARIABLE_T, 0), 1), LAMBDA s1 :
        IF s1.threw THEN s1
        ELSE With(Gaussian_FactorToVariableAll(s1, PairsOfKind(FACTOR_T, 0), 1), LAMBDA s2 :
            LET damped ==
                    [mean |-> [e \in Ids \X Ids |->
                                  IF IsNaN(s2.nextMessages.mean[e])
                                  THEN s2.nextMessages.mean[e]
                                  ELSE Gaussian_damp(s2.messages.mean[e],
                                                     s2.nextMessages.mean[e])],
                     precision |-> [e \in Ids \X Ids |->
                                  IF IsNaN(s2.nextMessages.mean[e])
                                  THEN s2.nextMessages.precision[e]
                                  ELSE Gaussian_damp(s2.messages.precision[e],
                                                     s2.nextMessages.precision[e])]]
            IN  [s2 EXCEPT !.messages = damped, !.nextMessages = s2.messages]))

Gaussian_updateBeliefs_noSkip(st) ==
    LET nbrs(v) == Node(v).neighbors
        totalPrecision(v) ==
            QSum([k \in 1..Len(nbrs(v)) |-> st.messages.precision[<<nbrs(v)[k], v>>]])
        weightedMean(v) ==
            QSum([k \in 1..Len(nbrs(v)) |->
                     QMul(st.messages.precision[<<nbrs(v)[k], v>>],
                          st.messages.mean[<<nbrs(v)[k], v>>])])
    IN  [st EXCEPT
            !.currentVariance = [v \in Ids |->
                IF ~IsVariable(v) THEN @[v]
                ELSE IF QLt(Zero, totalPrecision(v))
                     THEN QDiv(One, QAdd(totalPrecision(v), PrecisionGuard))
                     ELSE Node(v).variance],
            !.currentMean = [v \in Ids |->
                IF ~IsVariable(v) THEN @[v]
                ELSE IF QLt(Zero, totalPrecision(v))
                     THEN QDiv(weightedMean(v), QAdd(totalPrecision(v), PrecisionGuard))
                     ELSE Node(v).mean]]

\* updateBeliefs without the branch that reverts to the prior
Gaussian_updateBeliefs_noPrior(st) ==
    LET touched(v) == IsVariable(v) /\ v \notin DOMAIN st.evidence
        nbrs(v) == Node(v).neighbors
        totalPrecision(v) ==
            QSum([k \in 1..Len(nbrs(v)) |-> st.messages.precision[<<nbrs(v)[k], v>>]])
        weightedMean(v) ==
            QSum([k \in 1..Len(nbrs(v)) |->
                     QMul(st.messages.precision[<<nbrs(v)[k], v>>],
                          st.messages.mean[<<nbrs(v)[k], v>>])])
    IN  [st EXCEPT
            !.currentVariance = [v \in Ids |->
                IF ~touched(v) THEN @[v]
                ELSE QDiv(One, QAdd(totalPrecision(v), PrecisionGuard))],
            !.currentMean = [v \in Ids |->
                IF ~touched(v) THEN @[v]
                ELSE QDiv(weightedMean(v), QAdd(totalPrecision(v), PrecisionGuard))]]

Gaussian_updateBeliefs(st) ==
    LET touched(v) == IsVariable(v) /\ v \notin DOMAIN st.evidence
        nbrs(v) == Node(v).neighbors
        totalPrecision(v) ==
            QSum([k \in 1..Len(nbrs(v)) |-> st.messages.precision[<<nbrs(v)[k], v>>]])
        weightedMean(v) ==
            QSum([k \in 1..Len(nbrs(v)) |->
                     QMul(st.messages.precision[<<nbrs(v)[k], v>>],
                          st.messages.mean[<<nbrs(v)[k], v>>])])
    IN  [st EXCEPT
            !.currentVariance = [v \in Ids |->
                IF ~touched(v) THEN @[v]
                ELSE IF QLt(Zero, totalPrecision(v))
                     THEN QDiv(One, QAdd(totalPrecision(v), PrecisionGuard))
                     ELSE Node(v).variance],
            !.currentMean = [v \in Ids |->
                IF ~touched(v) THEN @[v]
                ELSE IF QLt(Zero, totalPrecision(v))
                     THEN QDiv(weightedMean(v), QAdd(totalPrecision(v), PrecisionGuard))
                     ELSE Node(v).mean]]

\* max over the variables of |mean change| and |variance change|
Gaussian_MaxDiff(old, new) ==
    LET RECURSIVE over(_, _)
        over(id, m) ==
            IF id >= NodeCount THEN m
            ELSE over(id + 1,
                      IF IsVariable(id)
                      THEN QMax(QMax(m, QAbs(QSub(new.currentMean[id], old.currentMean[id]))),
                                QAbs(QSub(new.currentVariance[id], old.currentVariance[id])))
                      ELSE m)
    IN  over(0, Zero)

RECURSIVE Gaussian_RunLoop(_, _, _, _, _)
Gaussian_RunLoop(st, i, maxIterations, tolerance, diffs) ==
    IF ~(i < maxIterations)
    THEN [st |-> st, sweeps |-> i, diffs |-> diffs, threw |-> FALSE,
          log |-> DidNotConverge(maxIterations)]
    ELSE With(Gaussian_updateAllMessages(st), LAMBDA sent :
             IF sent.threw
             THEN [st |-> [sent EXCEPT !.threw = FALSE], sweeps |-> i, diffs |-> diffs,
                   threw |-> TRUE, log |-> NoLine]
             ELSE With(Gaussian_updateBeliefs(sent), LAMBDA after :
                  With(Gaussian_MaxDiff(st, after), LAMBDA maxDiff :
                      IF QLt(maxDiff, tolerance)
                      THEN [st |-> after, sweeps |-> i + 1,
                            diffs |-> Append(diffs, maxDiff),
                            threw |-> FALSE, log |-> Converged(i + 1)]
                      ELSE Gaussian_RunLoop(after, i + 1, maxIterations, tolerance,
                                            Append(diffs, maxDiff)))))

Gaussian_runIterations(st, maxIterations, tolerance) ==
    Gaussian_RunLoop(st, 0, maxIterations, tolerance, <<>>)

\* setEvidence with the guard reduced to `if (!node) return`
Gaussian_setEvidence_noTypeCheck(st, nodeId, mean, variance) ==
    LET node == FindNode(nodeId)
    IN  IF node = NoValue THEN st
        ELSE LET nbrs == Node(node).neighbors
                 out == {<<node, nbrs[k]>> : k \in 1..Len(nbrs)}
                 clamp(m) ==
                     [mean |-> [e \in DOMAIN m.mean |->
                                   IF e \in out THEN mean ELSE m.mean[e]],
                      precision |-> [e \in DOMAIN m.precision |->
                                   IF e \in out THEN QDiv(One, variance)
                                   ELSE m.precision[e]]]
             IN  [st EXCEPT
                     !.evidence = [v \in (DOMAIN @) \cup {node} |->
                                      IF v = node THEN [mean |-> mean, variance |-> variance]
                                      ELSE @[v]],
                     !.currentMean[node] = mean,
                     !.currentVariance[node] = variance,
                     !.messages = clamp(@),
                     !.nextMessages = clamp(@)]

Gaussian_setEvidence(st, nodeId, mean, variance) ==
    LET node == FindNode(nodeId)
    IN  IF node = NoValue \/ ~IsVariable(node) THEN st
        ELSE LET nbrs == Node(node).neighbors
                 out == {<<node, nbrs[k]>> : k \in 1..Len(nbrs)}
                 clamp(m) ==
                     [mean |-> [e \in DOMAIN m.mean |->
                                   IF e \in out THEN mean ELSE m.mean[e]],
                      precision |-> [e \in DOMAIN m.precision |->
                                   IF e \in out THEN QDiv(One, variance)
                                   ELSE m.precision[e]]]
             IN  [st EXCEPT
                     !.evidence = [v \in (DOMAIN @) \cup {node} |->
                                      IF v = node THEN [mean |-> mean, variance |-> variance]
                                      ELSE @[v]],
                     !.currentMean[node] = mean,
                     !.currentVariance[node] = variance,
                     !.messages = clamp(@),
                     !.nextMessages = clamp(@)]

Gaussian_getBeliefs(st, nodeId) ==
    LET node == FindNode(nodeId)
    IN  IF node = NoValue \/ ~IsVariable(node)
        THEN [threw |-> TRUE, ret |-> <<"Cannot get beliefs from non-variable node: ", nodeId>>]
        ELSE [threw |-> FALSE,
              ret |-> [mean |-> st.currentMean[node], variance |-> st.currentVariance[node]]]

----------------------------------------------------------------------------
(* The engine as a state machine: construction, then any sequence of       *)
(* setEvidence and runIterations calls                                     *)

Absent == [given |-> FALSE, damping |-> Zero]
Damping(q) == [given |-> TRUE, damping |-> q]

\* options.damping || 0
DampingOption(opts) == IF opts.given /\ opts.damping # Zero THEN opts.damping ELSE Zero

\* the constructor calls explored: class, graph, options
Constructions ==
    {[engine |-> "bayes", input |-> GraphAB, options |-> o] :
        o \in {Absent, Damping(Zero), Damping(One)}}
    \cup {[engine |-> "bayes", input |-> GraphX, options |-> o] :
        o \in {Absent, Damping(<<1, 2>>), Damping(One)}}
    \cup {[engine |-> "gaussian", input |-> g, options |-> o] :
        g \in {GraphGaussAB, GraphGaussChain}, o \in {Absent, Damping(<<1, 2>>)}}

\* arguments of the calls explored
NodeNames == {graph.nodes[p].name : p \in 1..Len(graph.nodes)} \cup {"nobody"}
EvidenceValues == {0, 1, 2}
EvidenceMeans == {<<2, 1>>}
EvidenceVariances == {<<1, 1>>, <<1, 4>>}
Tolerances == {<<1, 1000000>>, <<1, 2>>}

Call(op) ==
    [op |-> op, nodeId |-> "", value |-> 0, maxIterations |-> 0, tolerance |-> Zero,
     sweeps |-> 0, diffs |-> <<>>, threw |-> FALSE, log |-> NoLine, ret |-> Undefined]

BayesState ==
    [messages |-> messages, nextMessages |-> nextMessages,
     variableMarginals |-> variableMarginals, currentBelief |-> currentBelief,
     logBelief |-> logBelief, evidence |-> evidence]

GaussianState ==
    [messages |-> messages, nextMessages |-> nextMessages, currentMean |-> currentMean,
     currentVariance |-> currentVariance, evidence |-> evidence, threw |-> FALSE]

Init ==
    \E c \in Constructions :
        LET g == processGraph(c.input, c.engine)
            b == initializeMessages(g)
            s == Gaussian_initializeMessages(g)
        IN  /\ engine = c.engine
            /\ graph = g
            /\ options = c.options
            /\ dampingFactor = DampingOption(c.options)
            /\ messages = IF c.engine = "bayes" THEN b.messages ELSE s.messages
            /\ nextMessages = IF c.engine = "bayes" THEN b.nextMessages ELSE s.nextMessages
            /\ evidence = <<>>
            /\ variableMarginals = IF c.engine = "bayes" THEN b.variableMarginals ELSE <<>>
            /\ currentBelief = IF c.engine = "bayes" THEN b.currentBelief ELSE <<>>
            /\ logBelief = IF c.engine = "bayes" THEN b.logBelief ELSE <<>>
            /\ currentMean = IF c.engine = "gaussian" THEN s.currentMean ELSE <<>>
            /\ currentVariance = IF c.engine = "gaussian" THEN s.currentVariance ELSE <<>>
            /\ lastCall = Call("new")
            /\ calls = 0
            /\ sweepsTotal = 0

SetBayes(st) ==
    /\ messages' = st.messages
    /\ nextMessages' = st.nextMessages
    /\ variableMarginals' = st.variableMarginals
    /\ currentBelief' = st.currentBelief
    /\ logBelief' = st.logBelief
    /\ evidence' = st.evidence
    /\ UNCHANGED <<currentMean, currentVariance>>

SetGaussian(st) ==
    /\ messages' = st.messages
    /\ nextMessages' = st.nextMessages
    /\ currentMean' = st.currentMean
    /\ currentVariance' = st.currentVariance
    /\ evidence' = st.evidence
    /\ UNCHANGED <<variableMarginals, currentBelief, logBelief>>

SetEvidence(nodeId, value) ==
    /\ engine = "bayes"
    /\ calls < MaxCalls
    /\ \E st \in {setEvidence(BayesState, nodeId, value)} : SetBayes(st)
    /\ lastCall' = [Call("setEvidence") EXCEPT !.nodeId = nodeId, !.value = value]
    /\ calls' = calls + 1
    /\ UNCHANGED <<engine, graph, options, dampingFactor, sweepsTotal>>

RunIterations(maxIterations, tolerance) ==
    /\ engine = "bayes"
    /\ calls < MaxCalls
    /\ sweepsTotal + maxIterations <= MaxSweeps
    /\ \E r \in {runIterations(BayesState, maxIterations, tolerance)} :
           /\ SetBayes(r.st)
           /\ lastCall' = [Call("runIterations") EXCEPT
                              !.maxIterations = maxIterations, !.tolerance = tolerance,
                              !.sweeps = r.sweeps, !.diffs = r.diffs, !.threw = r.threw,
                              !.log = r.log]
           /\ sweepsTotal' = sweepsTotal + r.sweeps
    /\ calls' = calls + 1
    /\ UNCHANGED <<engine, graph, options, dampingFactor>>

GaussianSetEvidence(nodeId, mean, variance) ==
    /\ engine = "gaussian"
    /\ calls < MaxCalls
    /\ \E st \in {Gaussian_setEvidence(GaussianState, nodeId, mean, variance)} :
           SetGaussian(st)
    /\ lastCall' = [Call("setEvidence") EXCEPT
                       !.nodeId = nodeId, !.value = [mean |-> mean, variance |-> variance]]
    /\ calls' = calls + 1
    /\ UNCHANGED <<engine, graph, options, dampingFactor, sweepsTotal>>

GaussianRunIterations(maxIterations, tolerance) ==
    /\ engine = "gaussian"
    /\ calls < MaxCalls
    /\ sweepsTotal + maxIterations <= MaxSweeps
    /\ \E r \in {Gaussian_runIterations(GaussianState, maxIterations, tolerance)} :
           /\ SetGaussian(r.st)
           /\ lastCall' = [Call("runIterations") EXCEPT
                              !.maxIterations = maxIterations, !.tolerance = tolerance,
                              !.sweeps = r.sweeps, !.diffs = r.diffs, !.threw = r.threw,
                              !.log = r.log]
           /\ sweepsTotal' = sweepsTotal + r.sweeps
    /\ calls' = calls + 1
    /\ UNCHANGED <<engine, graph, options, dampingFactor>>

\* The getters write no field, so a run is explored up to its first read:
\* the read takes the remaining calls.
GetBeliefs(nodeId) ==
    /\ engine = "bayes"
    /\ calls < MaxCalls
    /\ \E r \in {getBeliefs(BayesState, nodeId)} :
           lastCall' = [Call("getBeliefs") EXCEPT
                           !.nodeId = nodeId, !.threw = r.threw, !.ret = r.ret]
    /\ calls' = MaxCalls
    /\ UNCHANGED <<engine, graph, options, dampingFactor, sweepsTotal, messages,
                   nextMessages, variableMarginals, evidence, currentBelief, logBelief,
                   currentMean, currentVariance>>

GetLogBeliefs(nodeId) ==
    /\ engine = "bayes"
    /\ calls < MaxCalls
    /\ \E r \in {getLogBeliefs(BayesState, nodeId)} :
           lastCall' = [Call("getLogBeliefs") EXCEPT
                           !.nodeId = nodeId, !.threw = r.threw, !.ret = r.ret]
    /\ calls' = MaxCalls
    /\ UNCHANGED <<engine, graph, options, dampingFactor, sweepsTotal, messages,
                   nextMessages, variableMarginals, evidence, currentBelief, logBelief,
                   currentMean, currentVariance>>

GaussianGetBeliefs(nodeId) ==
    /\ engine = "gaussian"
    /\ calls < MaxCalls
    /\ \E r \in {Gaussian_getBeliefs(GaussianState, nodeId)} :
           lastCall' = [Call("getBeliefs") EXCEPT
                           !.nodeId = nodeId, !.threw = r.threw, !.ret = r.ret]
    /\ calls' = MaxCalls
    /\ UNCHANGED <<engine, graph, options, dampingFactor, sweepsTotal, messages,
                   nextMessages, variableMarginals, evidence, currentBelief, logBelief,
                   currentMean, currentVariance>>

Next ==
    \/ \E n \in NodeNames, v \in EvidenceValues : SetEvidence(n, v)
    \/ \E k \in 0..MaxIterations, t \in Tolerances : RunIterations(k, t)
    \/ \E n \in NodeNames, m \in EvidenceMeans, s \in EvidenceVariances :
           GaussianSetEvidence(n, m, s)
    \/ \E k \in 0..MaxIterations, t \in Tolerances : GaussianRunIterations(k, t)
    \/ \E n \in NodeNames : GetBeliefs(n)
    \/ \E n \in NodeNames : GetLogBeliefs(n)
    \/ \E n \in NodeNames : GaussianGetBeliefs(n)

Spec == Init /\ [][Next]_vars

----------------------------------------------------------------------------
(* Construction on its own: the constructor applied to graphs whose edge   *)
(* lists are drawn from valid, reversed, same-kind and unknown-name edges  *)

NormNodes(eng) ==
    IF eng = "bayes"
    THEN << [name |-> "A", type |-> VARIABLE_T, possibleValues |-> <<0, 1>>],
            [name |-> "B", type |-> VARIABLE_T, possibleValues |-> <<0, 1>>],
            [name |-> "F", type |-> FACTOR_T, potential |-> GraphAB.nodes[3].potential],
            [name |-> "G", type |-> FACTOR_T, potential |-> GraphAB.nodes[3].potential] >>
    ELSE << [name |-> "A", type |-> VARIABLE_T, mean |-> <<2, 1>>, variance |-> <<1, 1>>],
            [name |-> "B", type |-> VARIABLE_T, mean |-> <<0, 1>>, variance |-> <<1, 2>>],
            [name |-> "F", type |-> FACTOR_T,
             potentialMean |-> GraphGaussAB.nodes[3].potentialMean,
             potentialPrecision |-> GraphGaussAB.nodes[3].potentialPrecision],
            [name |-> "G", type |-> FACTOR_T,
             potentialMean |-> GraphGaussAB.nodes[3].potentialMean,
             potentialPrecision |-> GraphGaussAB.nodes[3].potentialPrecision] >>

EdgeChoices ==
    { <<"A", "F">>, <<"F", "A">>, <<"B", "F">>, <<"B", "G">>,
      <<"A", "B">>, <<"F", "G">>, <<"A", "nobody">>, <<"toString", "F">> }

EdgeLists == UNION {[1..n -> EdgeChoices] : n \in 0..MaxEdges}

NormConstructions ==
    {[engine |-> e, input |-> [nodes |-> NormNodes(e), edges |-> el], options |-> Absent] :
        e \in {"bayes", "gaussian"}, el \in EdgeLists}

\* before `new`: the constructor's arguments are at hand, no object exists
InitNorm ==
    \E c \in NormConstructions :
        /\ engine = "none"
        /\ graph = [nodes |-> <<>>, edges |-> <<>>]
        /\ options = c.options
        /\ dampingFactor = Zero
        /\ messages = <<>>
        /\ nextMessages = <<>>
        /\ evidence = <<>>
        /\ variableMarginals = <<>>
        /\ currentBelief = <<>>
        /\ logBelief = <<>>
        /\ currentMean = <<>>
        /\ currentVariance = <<>>
        /\ lastCall = [Call("pending") EXCEPT !.value = c]
        /\ calls = 0
        /\ sweepsTotal = 0

\* new BeliefPropagation(graph, options) / new GaussianBeliefPropagation(graph, options)
Construct ==
    /\ engine = "none"
    /\ \E c \in {lastCall.value} : \E g \in {processGraph(c.input, c.engine)} :
         \E b \in {IF c.engine = "bayes" THEN initializeMessages(g)
                    ELSE Gaussian_initializeMessages(g)} :
            /\ engine' = c.engine
            /\ graph' = g
            /\ dampingFactor' = DampingOption(c.options)
            /\ messages' = b.messages
            /\ nextMessages' = b.nextMessages
            /\ evidence' = <<>>
            /\ variableMarginals' = IF c.engine = "bayes" THEN b.variableMarginals ELSE <<>>
            /\ currentBelief' = IF c.engine = "bayes" THEN b.currentBelief ELSE <<>>
            /\ logBelief' = IF c.engine = "bayes" THEN b.logBelief ELSE <<>>
            /\ currentMean' = IF c.engine = "gaussian" THEN b.currentMean ELSE <<>>
            /\ currentVariance' = IF c.engine = "gaussian" THEN b.currentVariance ELSE <<>>
            /\ lastCall' = [Call("new") EXCEPT !.value = c]
    /\ calls' = calls + 1
    /\ UNCHANGED <<options, sweepsTotal>>

NextNorm == Construct

SpecNorm == InitNorm /\ [][NextNorm]_vars

----------------------------------------------------------------------------
(* Calls on a Gaussian engine whose graph has uninformed variables *)

PriorConstructions ==
    {[engine |-> "gaussian", input |-> GraphGaussIsolated, options |-> o] :
        o \in {Absent, Damping(<<1, 2>>)}}

InitPrior ==
    \E c \in PriorConstructions :
        LET g == processGraph(c.input, c.engine)
            s == Gaussian_initializeMessages(g)
        IN  /\ engine = c.engine
            /\ graph = g
            /\ options = c.options
            /\ dampingFactor = DampingOption(c.options)
            /\ messages = s.messages
            /\ nextMessages = s.nextMessages
            /\ evidence = <<>>
            /\ variableMarginals = <<>>
            /\ currentBelief = <<>>
            /\ logBelief = <<>>
            /\ currentMean = s.currentMean
            /\ currentVariance = s.currentVariance
            /\ lastCall = Call("new")
            /\ calls = 0
            /\ sweepsTotal = 0

NextPrior ==
    \/ \E n \in NodeNames, m \in EvidenceMeans, s \in EvidenceVariances :
           GaussianSetEvidence(n, m, s)
    \/ \E k \in 0..MaxIterations, t \in Tolerances : GaussianRunIterations(k, t)
    \/ \E n \in NodeNames : GaussianGetBeliefs(n)

SpecPrior == InitPrior /\ [][NextPrior]_vars

----------------------------------------------------------------------------
(* Calls on a discrete engine whose factors have zero potentials *)

ZeroConstructions ==
    {[engine |-> "bayes", input |-> g, options |-> o] :
        g \in {GraphZero, GraphEqual}, o \in {Absent, Damping(One)}}

InitZero ==
    \E c \in ZeroConstructions :
        LET g == processGraph(c.input, c.engine)
            b == initializeMessages(g)
        IN  /\ engine = c.engine
            /\ graph = g
            /\ options = c.options
            /\ dampingFactor = DampingOption(c.options)
            /\ messages = b.messages
            /\ nextMessages = b.nextMessages
            /\ evidence = <<>>
            /\ variableMarginals = b.variableMarginals
            /\ currentBelief = b.currentBelief
            /\ logBelief = b.logBelief
            /\ currentMean = <<>>
            /\ currentVariance = <<>>
            /\ lastCall = Call("new")
            /\ calls = 0
            /\ sweepsTotal = 0

NextZero ==
    \/ \E n \in NodeNames, v \in EvidenceValues : SetEvidence(n, v)
    \/ \E k \in 0..MaxIterations, t \in Tolerances : RunIterations(k, t)
    \/ \E n \in NodeNames : GetBeliefs(n)
    \/ \E n \in NodeNames : GetLogBeliefs(n)

SpecZero == InitZero /\ [][NextZero]_vars

----------------------------------------------------------------------------
(* Reference notions the properties are stated with *)

IsBayes == engine = "bayes"
IsGaussian == engine = "gaussian"
AfterRun == lastCall.op = "runIterations"
AfterSetEvidence == lastCall.op = "setEvidence"
NonEvidenced == VariableIds \ DOMAIN evidence

\* the graph is the two-variable agreement graph
IsGraphAB == IsBayes /\ NodeCount = 3 /\ Node(2).name = "AB"

\* nodes within k edges of the nodes of S
RECURSIVE Within(_, _)
Within(S, k) ==
    IF k = 0 THEN S
    ELSE LET R == Within(S, k - 1)
         IN  R \cup {j \in Ids : \E i \in R : \E p \in 1..Len(Node(i).neighbors) :
                                     Node(i).neighbors[p] = j}

\* the diameter of the (connected) factor graph
Diameter == CHOOSE k \in 0..NodeCount :
                /\ \A i \in Ids : Within({i}, k) = Ids
                /\ \A m \in 0..(k - 1) : \E i \in Ids : Within({i}, m) # Ids

\* all joint assignments: one value index per node id (factors carry 0)
JointAssignments ==
    cartesianProduct([p \in 1..NodeCount |->
                         IF IsVariable(p - 1) THEN Indices(p - 1) ELSE <<0>>])

RECURSIVE ProductOfPotentials(_, _)
ProductOfPotentials(joint, id) ==
    IF id >= NodeCount THEN One
    ELSE QMul(IF IsFactor(id)
              THEN LET nbrs == Node(id).neighbors
                       RECURSIVE args(_)
                       args(k) == IF k = 0 THEN <<>>
                                  ELSE Append(args(k - 1), joint[nbrs[k] + 1])
                   IN  Node(id).potential[args(Len(nbrs))]
              ELSE One,
              ProductOfPotentials(joint, id + 1))

\* the exact marginal of variable v by exhaustive summation
BruteForceMarginal(v) ==
    LET weight(i) == QSum([c \in 1..Len(JointAssignments) |->
                              IF JointAssignments[c][v + 1] = i
                              THEN ProductOfPotentials(JointAssignments[c], 0)
                              ELSE Zero])
    IN  normalize([p \in 1..Len(Node(v).possibleValues) |-> weight(p - 1)])

----------------------------------------------------------------------------
(* Properties *)

\* C1: in every reachable state of the discrete engine every variable's
\* belief vector has entries >= 0 and sums to 1.
C1_BeliefIsDistribution ==
    IsBayes =>
        \A v \in VariableIds :
            /\ \A p \in 1..Len(currentBelief[v]) : ~QLt(currentBelief[v][p], Zero)
            /\ QSum(currentBelief[v]) = One

\* C2: once setEvidence has clamped a variable, getBeliefs returns exactly
\* the clamped value (discrete: the vector setEvidence wrote for the observed
\* value; Gaussian: the given mean and variance) after any later
\* runIterations calls.
C2_EvidenceStaysClamped ==
    /\ IsBayes =>
          \A v \in DOMAIN evidence :
              getBeliefs(BayesState, Node(v).name) =
                  [threw |-> FALSE,
                   ret |-> [p \in 1..Len(Node(v).possibleValues) |->
                               IF Node(v).possibleValues[p] = evidence[v]
                               THEN One ELSE Zero]]
    /\ IsGaussian =>
          \A v \in DOMAIN evidence :
              Gaussian_getBeliefs(GaussianState, Node(v).name) =
                  [threw |-> FALSE,
                   ret |-> [mean |-> evidence[v].mean, variance |-> evidence[v].variance]]

\* C2 witness: sweeps have run, and the messages arriving at an evidenced
\* variable multiply to something other than its clamped belief, in an
\* engine whose damping factor would pass that product through.
C2_Witness ==
    /\ IsBayes /\ AfterRun /\ lastCall.sweeps >= 2
    /\ dampingFactor = One
    /\ \E v \in DOMAIN evidence : NewMarginal(BayesState, v) # currentBelief[v]

\* C3 as claimed: setEvidence(name, k), k an index of the domain, leaves the
\* belief 1 at index k and 0 elsewhere, and the log-belief 0 at index k and
\* -infinity elsewhere, whatever numbers possibleValues holds.
C3_OneHotAtIndex ==
    (IsBayes /\ AfterSetEvidence /\ FindNode(lastCall.nodeId) \in VariableIds
        /\ lastCall.value \in 0..(Len(Node(FindNode(lastCall.nodeId)).possibleValues) - 1))
    => LET v == FindNode(lastCall.nodeId)
       IN  \A p \in 1..Len(Node(v).possibleValues) :
               /\ currentBelief[v][p] = (IF p - 1 = lastCall.value THEN One ELSE Zero)
               /\ logBelief[v][p] = (IF p - 1 = lastCall.value THEN Log(One)
                                     ELSE NegInfinity)

\* C3 amended: setEvidence(name, value) leaves the belief 1 at every index i
\* with possibleValues[i] = value and 0 at every other index, and the
\* log-belief 0 resp. -infinity at the same indices.
C3_MarksMatchingValues ==
    (IsBayes /\ AfterSetEvidence /\ FindNode(lastCall.nodeId) \in VariableIds)
    => LET v == FindNode(lastCall.nodeId)
       IN  /\ Len(currentBelief[v]) = Len(Node(v).possibleValues)
           /\ Len(logBelief[v]) = Len(Node(v).possibleValues)
           /\ \A p \in 1..Len(Node(v).possibleValues) :
               IF Node(v).possibleValues[p] = lastCall.value
               THEN currentBelief[v][p] = One /\ logBelief[v][p] = Log(One)
               ELSE currentBelief[v][p] = Zero /\ logBelief[v][p] = NegInfinity

\* C3 witness: evidence set on a variable whose domain is not 0..k-1, with a
\* value that is both an index and an element of the domain, at different
\* positions.
C3_Witness ==
    /\ IsBayes /\ AfterSetEvidence /\ FindNode(lastCall.nodeId) \in VariableIds
    /\ LET pv == Node(FindNode(lastCall.nodeId)).possibleValues
       IN  /\ lastCall.value \in 0..(Len(pv) - 1)
           /\ \E p \in 1..Len(pv) : pv[p] = lastCall.value /\ p - 1 # lastCall.value

\* C4: agreement graph (0.99 / 0.01), damping 0, evidence A = 1 and nothing
\* else: once runIterations reports convergence, the belief of B is about
\* [0.01, 0.99].
C4_AgreementScenario ==
    (IsGraphAB /\ dampingFactor = Zero /\ DOMAIN evidence = {0} /\ AfterRun
        /\ lastCall.log.kind = "Converged")
    => (evidence[0] = 1 =>
           /\ QLt(QAbs(QSub(currentBelief[1][1], <<1, 100>>)), <<1, 100>>)
           /\ QLt(QAbs(QSub(currentBelief[1][2], <<99, 100>>)), <<1, 100>>))

\* C5: an engine built without a damping option uses damping 0, and after
\* each sweep the belief of every non-evidenced variable is the newly
\* computed normalised marginal.
C5_DefaultAcceptsNewBelief ==
    (IsBayes /\ ~options.given)
    => /\ dampingFactor = Zero
       /\ (AfterRun /\ lastCall.sweeps >= 1) =>
              \A v \in NonEvidenced : currentBelief[v] = NewMarginal(BayesState, v)

\* C6: on a tree, after as many sweeps as the graph's diameter every belief
\* is the exact marginal found by exhaustive summation (stated where the
\* damping factor passes the new marginal through unchanged).
C6_TreeExactAfterDiameter ==
    (IsBayes /\ dampingFactor = One /\ DOMAIN evidence = {} /\ sweepsTotal = Diameter)
    => \A v \in VariableIds : currentBelief[v] = BruteForceMarginal(v)

\* C7: setEvidence on a name that is no node, or names a factor, raises
\* nothing and leaves beliefs, log-beliefs, marginals, both message buffers
\* and the evidence map as they were (both engines).
C7_InvalidTargetIsNoOp ==
    [][(lastCall'.op = "setEvidence"
          /\ (FindNode(lastCall'.nodeId) = NoValue \/ IsFactor(FindNode(lastCall'.nodeId))))
       => (/\ ~lastCall'.threw
           /\ UNCHANGED <<messages, nextMessages, variableMarginals, evidence,
                          currentBelief, logBelief, currentMean, currentVariance>>)]_vars

\* C7 witness: setEvidence was just called with a factor's name, after
\* sweeps and evidence have filled both buffers and the evidence map.
C7_Witness ==
    /\ AfterSetEvidence
    /\ FindNode(lastCall.nodeId) # NoValue /\ IsFactor(FindNode(lastCall.nodeId))
    /\ sweepsTotal >= 1 /\ DOMAIN evidence # {}

\* C8: runIterations never raises an error.
C8_RunIterationsReturns == AfterRun => ~lastCall.threw

\* C9: runIterations performs at most maxIterations sweeps, stops right
\* after the first sweep whose maximum belief change is below tolerance, and
\* otherwise performs exactly maxIterations sweeps.
C9_SweepsAndStop ==
    AfterRun =>
        /\ lastCall.sweeps <= lastCall.maxIterations
        /\ Len(lastCall.diffs) = lastCall.sweeps
        /\ \A j \in 1..(lastCall.sweeps - 1) : ~QLt(lastCall.diffs[j], lastCall.tolerance)
        /\ lastCall.sweeps < lastCall.maxIterations =>
               /\ lastCall.sweeps >= 1
               /\ QLt(lastCall.diffs[lastCall.sweeps], lastCall.tolerance)
        /\ (lastCall.sweeps = lastCall.maxIterations /\ lastCall.sweeps >= 1) =>
               (lastCall.log.kind = "Converged"
                    <=> QLt(lastCall.diffs[lastCall.sweeps], lastCall.tolerance))

\* C10: the caller gets the outcome of runIterations as a value: converged
\* at iteration k, or budget exhausted.
C10_OutcomeReturned ==
    (AfterRun /\ ~lastCall.threw) =>
        /\ lastCall.ret.kind \in {"Converged", "Did not converge"}
        /\ lastCall.ret = lastCall.log

\* C11: runIterations(0, tolerance) raises nothing and leaves beliefs,
\* log-beliefs, cached marginals, both message buffers and the evidence as
\* they were, in both engines and from any state.
C11_ZeroIterationsIsNoOp ==
    [][(lastCall'.op = "runIterations" /\ lastCall'.maxIterations = 0)
       => (/\ ~lastCall'.threw
           /\ lastCall'.sweeps = 0
           /\ UNCHANGED <<messages, nextMessages, variableMarginals, evidence,
                          currentBelief, logBelief, currentMean, currentVariance>>)]_vars

\* C11 witness: runIterations(0) was just called on an engine that holds
\* evidence and has run sweeps, whose damping factor lets a sweep move beliefs.
C11_Witness ==
    /\ AfterRun /\ lastCall.maxIterations = 0
    /\ sweepsTotal >= 1 /\ DOMAIN evidence # {}
    /\ dampingFactor # Zero

\* C12: getBeliefs (both engines) and getLogBeliefs (discrete) called with
\* an unknown name or a factor's name raise an error whose message carries
\* that name; called with a variable's name they return its current belief
\* (probability vector, log vector, or mean and variance); either way no
\* field of the engine changes.
C12_GettersReturnOrRaise ==
    [][(lastCall'.op \in {"getBeliefs", "getLogBeliefs"})
       => (/\ UNCHANGED <<messages, nextMessages, variableMarginals, evidence,
                          currentBelief, logBelief, currentMean, currentVariance,
                          graph, dampingFactor>>
           /\ LET node == FindNode(lastCall'.nodeId)
              IN  IF node = NoValue \/ IsFactor(node)
                  THEN /\ lastCall'.threw
                       /\ \E p \in 1..Len(lastCall'.ret) : lastCall'.ret[p] = lastCall'.nodeId
                  ELSE /\ ~lastCall'.threw
                       /\ lastCall'.ret =
                              (IF IsGaussian
                               THEN [mean |-> currentMean[node],
                                     variance |-> currentVariance[node]]
                               ELSE IF lastCall'.op = "getBeliefs"
                               THEN currentBelief[node]
                               ELSE logBelief[node]))]_vars

\* C12 witness: getBeliefs was just called with a factor's name, after a
\* sweep, and raised.
C12_Witness ==
    /\ lastCall.op = "getBeliefs" /\ lastCall.threw
    /\ FindNode(lastCall.nodeId) # NoValue /\ IsFactor(FindNode(lastCall.nodeId))
    /\ sweepsTotal >= 1

\* C13: in every state of the discrete engine, for every variable and index
\* i, logBelief[i] is -infinity exactly when belief[i] is 0, and is
\* log(belief[i]) otherwise.
C13_LogBeliefMatchesBelief ==
    IsBayes =>
        \A v \in VariableIds :
            /\ Len(logBelief[v]) = Len(currentBelief[v])
            /\ \A p \in 1..Len(currentBelief[v]) :
                   /\ (logBelief[v][p] = NegInfinity) <=> (currentBelief[v][p] = Zero)
                   /\ currentBelief[v][p] # Zero =>
                          logBelief[v][p] = Log(currentBelief[v][p])

\* C13 witness: after a sweep one variable is clamped (entries 0 and 1) and
\* another has moved away from its uniform start.
C13_Witness ==
    /\ IsBayes /\ AfterRun /\ lastCall.sweeps >= 1
    /\ \E v \in DOMAIN evidence : \E p \in 1..Len(currentBelief[v]) :
           currentBelief[v][p] = Zero
    /\ \E v \in NonEvidenced : \E p \in 1..Len(currentBelief[v]) :
           currentBelief[v][p] # Q(1, Len(currentBelief[v]))

----------------------------------------------------------------------------
(* Properties of construction, stated under SpecNorm *)

Constructed == lastCall.op = "new" /\ engine # "none"
\* the edge list the constructor was given
InputEdges == lastCall.value.input.edges
Neighbors(a) == {Node(a).neighbors[p] : p \in 1..Len(Node(a).neighbors)}
\* the name belongs to a node of the supplied node mapping
IsKey(name) == \E i \in Ids : Node(i).name = name

\* C14: after construction (both engines, every input edge list) a node is
\* in another's neighbor list only if their kinds differ; adjacency is
\* symmetric; a same-kind edge adds no neighbor, and every edge between a
\* variable and a factor, before or after it, still makes them neighbors.
C14_NeighborsCrossKindSymmetric ==
    Constructed =>
        /\ \A a \in Ids : \A b \in Neighbors(a) :
               /\ b \in Ids
               /\ Node(a).type # Node(b).type
               /\ a \in Neighbors(b)
        /\ \A k \in 1..Len(InputEdges) :
               LET from == InputEdges[k][1]
                   to == InputEdges[k][2]
               IN  (IsKey(from) /\ IsKey(to)) =>
                       IF Node(FindNode(from)).type # Node(FindNode(to)).type
                       THEN /\ FindNode(to) \in Neighbors(FindNode(from))
                            /\ FindNode(from) \in Neighbors(FindNode(to))
                       ELSE /\ FindNode(to) \notin Neighbors(FindNode(from))
                            /\ FindNode(from) \notin Neighbors(FindNode(to))

\* C14 witness: the constructor was given a same-kind edge followed by a
\* variable-factor edge, and the second one made its ends neighbors.
C14_Witness ==
    /\ Constructed
    /\ Len(InputEdges) = 2
    /\ InputEdges[1] = <<"A", "B">> /\ InputEdges[2] = <<"B", "F">>
    /\ FindNode("F") \in Neighbors(FindNode("B"))

\* the constructor's input with the edges that name a non-key removed
InputWithoutUnknownEdges ==
    [lastCall.value.input EXCEPT
        !.edges = SelectSeq(@, LAMBDA e : IsKey(e[1]) /\ IsKey(e[2]))]

\* C15: an input edge with an endpoint name that is not a key of the node
\* mapping is dropped: the internal edge list, every neighbor list and
\* every message slot are what they would be had the edge not been given.
C15_UnknownEdgesDropped ==
    Constructed =>
        LET g == processGraph(InputWithoutUnknownEdges, engine)
        IN  /\ graph = g
            /\ messages = (IF IsBayes THEN initializeMessages(g).messages
                           ELSE Gaussian_initializeMessages(g).messages)

\* index in the expanded edge list of the first edge joining a and b
FirstOccurrence(a, b) ==
    CHOOSE k \in 1..Len(graph.edges) :
        /\ graph.edges[k] \in {<<a, b>>, <<b, a>>}
        /\ \A j \in 1..(k - 1) : graph.edges[j] \notin {<<a, b>>, <<b, a>>}

\* C16: the position of a variable in a factor's neighbor list (its place in
\* the potential's argument vector) is its rank among the factor's variables
\* by first occurrence of the variable-factor pair in the expanded edge list.
C16_PositionByFirstOccurrence ==
    Constructed =>
        \A f \in Ids : IsFactor(f) =>
            \A v \in Neighbors(f) :
                IndexOf(Node(f).neighbors, v) =
                    Cardinality({w \in Neighbors(f) :
                                    FirstOccurrence(f, w) <= FirstOccurrence(f, v)})

----------------------------------------------------------------------------
(* Properties of sweeps, stated under Spec *)

\* the message a -> b that one update computes from the given state alone
BayesUpdateFrom(st, a, b) ==
    (IF IsVariable(a) THEN updateVariableToFactorMessage(st, a, b)
     ELSE updateFactorToVariableMessage(st, a, b)).nextMessages[<<a, b>>]

GaussianUpdateFrom(st, a, b) ==
    LET next == (IF IsVariable(a) THEN Gaussian_updateVariableToFactorMessage(st, a, b)
                 ELSE Gaussian_updateFactorToVariableMessage(st, a, b)).nextMessages
    IN  [mean |-> next.mean[<<a, b>>], precision |-> next.precision[<<a, b>>]]

\* C17: a call that runs exactly one sweep leaves, in the current buffer,
\* for every edge the message that the update computes from the state
\* before the sweep alone (current buffer, marginals; in the Gaussian
\* engine blended with the old message by the damping loop), and in the
\* next buffer the messages that were current before the sweep.
C17_SynchronousSweep ==
    [][(lastCall'.op = "runIterations" /\ lastCall'.sweeps = 1 /\ ~lastCall'.threw)
       => /\ nextMessages' = messages
          /\ \A a \in Ids : \A b \in Neighbors(a) :
                IF IsBayes
                THEN messages'[<<a, b>>] = BayesUpdateFrom(BayesState, a, b)
                ELSE LET raw == GaussianUpdateFrom(GaussianState, a, b)
                     IN  /\ messages'.mean[<<a, b>>] =
                                (IF IsNaN(raw.mean) THEN raw.mean
                                 ELSE Gaussian_damp(messages.mean[<<a, b>>], raw.mean))
                         /\ messages'.precision[<<a, b>>] =
                                (IF IsNaN(raw.mean) THEN raw.precision
                                 ELSE Gaussian_damp(messages.precision[<<a, b>>],
                                                    raw.precision))]_vars

\* C17 witness: a one-sweep call has just returned on an engine that had
\* already run sweeps, and the sweep changed the messages.
C17_Witness ==
    /\ AfterRun /\ lastCall.sweeps = 1 /\ ~lastCall.threw
    /\ sweepsTotal >= 2
    /\ messages # nextMessages

----------------------------------------------------------------------------
(* Properties of the initial messages, stated under SpecNorm *)

\* the uniform distribution over the domain of variable v
Uniform(v) == [p \in 1..Len(Node(v).possibleValues) |-> Q(1, Len(Node(v).possibleValues))]

\* C18: right after construction of the discrete engine every message from
\* a variable to a neighboring factor is the uniform distribution over the
\* variable's domain, and every message from a factor to a neighboring
\* variable is [1].
C18_InitialMessages ==
    (Constructed /\ IsBayes) =>
        \A v \in VariableIds : \A f \in Neighbors(v) :
            /\ messages[<<v, f>>] = Uniform(v)
            /\ messages[<<f, v>>] = <<One>>

----------------------------------------------------------------------------
(* Properties of evidence clamping, stated under Spec *)

\* the variable the last call named
Target == FindNode(lastCall.nodeId)

\* the message setEvidence writes for an evidenced discrete variable
ClampedMessage(v) == EvidenceBelief(Node(v).possibleValues, evidence[v])

\* C19: in both engines setEvidence on a variable writes the clamped message
\* (discrete: the vector marking the observed value; Gaussian: the observed
\* mean with precision 1 / observed variance) into the current and the next
\* buffer for each neighboring factor, and in every later state, whatever
\* sweeps ran and whatever the damping factor, the current buffer still
\* holds the clamped message from each evidenced variable to each neighbor.
C19_ClampedMessagesPersist ==
    /\ IsBayes =>
          \A v \in DOMAIN evidence : \A f \in Neighbors(v) :
              /\ messages[<<v, f>>] = ClampedMessage(v)
              /\ (AfterSetEvidence /\ Target = v) =>
                    nextMessages[<<v, f>>] = ClampedMessage(v)
    /\ IsGaussian =>
          \A v \in DOMAIN evidence : \A f \in Neighbors(v) :
              /\ messages.mean[<<v, f>>] = evidence[v].mean
              /\ messages.precision[<<v, f>>] = QDiv(One, evidence[v].variance)
              /\ (AfterSetEvidence /\ Target = v) =>
                    /\ nextMessages.mean[<<v, f>>] = evidence[v].mean
                    /\ nextMessages.precision[<<v, f>>] =
                           QDiv(One, evidence[v].variance)

\* C19 witness: two sweeps of the Gaussian engine completed under a damping
\* factor of 1/2 with a variable evidenced, and the update that ignores the
\* evidence would have sent something else to one of its factors.
C19_Witness ==
    /\ IsGaussian /\ AfterRun /\ lastCall.sweeps >= 2 /\ ~lastCall.threw
    /\ dampingFactor = <<1, 2>>
    /\ \E v \in DOMAIN evidence : \E f \in Neighbors(v) :
           LET raw == Gaussian_updateVariableToFactorMessage_noEvidence(
                          GaussianState, v, f)
           IN  /\ ~raw.threw
               /\ raw.nextMessages.mean[<<v, f>>] # evidence[v].mean

----------------------------------------------------------------------------
(* Properties of Gaussian damping, stated under Spec *)

\* the blend damping * new + (1 - damping) * old
BlendTowardsNew(new, old) ==
    QAdd(QMul(dampingFactor, new), QMul(QSub(One, dampingFactor), old))

\* C20: a sweep of the Gaussian engine leaves, for every edge, the mean and
\* the precision damping * new + (1 - damping) * old, new being the raw
\* value the sweep computed and old the value of the current buffer before
\* the sweep (so damping 0 keeps the old message).
C20_GaussianBlendTowardsNew ==
    [][(IsGaussian /\ lastCall'.op = "runIterations" /\ lastCall'.sweeps = 1
            /\ ~lastCall'.threw)
       => \A a \in Ids : \A b \in Neighbors(a) :
              LET raw == GaussianUpdateFrom(GaussianState, a, b)
              IN  ~IsNaN(raw.mean) =>
                      /\ messages'.mean[<<a, b>>] =
                             BlendTowardsNew(raw.mean, messages.mean[<<a, b>>])
                      /\ messages'.precision[<<a, b>>] =
                             BlendTowardsNew(raw.precision,
                                             messages.precision[<<a, b>>])]_vars

----------------------------------------------------------------------------
(* Properties of the Gaussian updates, stated under Spec *)

\* the neighbors of v other than f, in the order of v's neighbor list
OtherNeighbors(v, f) == SelectSeq(Node(v).neighbors, LAMBDA n : n # f)

\* sum of the current precisions of the messages to v from its neighbors
\* other than f; the empty sum is 0
OtherPrecision(v, f) ==
    QSumFrom([k \in 1..Len(OtherNeighbors(v, f)) |->
                 messages.precision[<<OtherNeighbors(v, f)[k], v>>]], 1)

\* sum of precision * mean over the same messages
OtherWeightedMean(v, f) ==
    QSumFrom([k \in 1..Len(OtherNeighbors(v, f)) |->
                 QMul(messages.precision[<<OtherNeighbors(v, f)[k], v>>],
                      messages.mean[<<OtherNeighbors(v, f)[k], v>>])], 1)

\* C21: in every state of the Gaussian engine the variable-to-factor update
\* completes for every variable v and neighboring factor f; for a
\* non-evidenced v it writes as precision the sum of the current precisions
\* of the messages from v's other factors (0 when f is the only neighbor) and
\* as mean their precision-weighted average (0 when that sum is not
\* positive); for an evidenced v it writes (evidence mean, 1 / evidence
\* variance).
C21_VariableToFactorUpdate ==
    IsGaussian =>
        \A v \in VariableIds : \A f \in Neighbors(v) :
            LET out == Gaussian_updateVariableToFactorMessage(GaussianState, v, f)
            IN  /\ ~out.threw
                /\ out.nextMessages.precision[<<v, f>>] =
                       (IF v \in DOMAIN evidence THEN QDiv(One, evidence[v].variance)
                        ELSE OtherPrecision(v, f))
                /\ out.nextMessages.mean[<<v, f>>] =
                       (IF v \in DOMAIN evidence THEN evidence[v].mean
                        ELSE IF QLt(Zero, OtherPrecision(v, f))
                             THEN QDiv(OtherWeightedMean(v, f), OtherPrecision(v, f))
                             ELSE Zero)


\* sum of the precisions of the messages arriving at v in the current buffer
TotalPrecision(v) ==
    QSum([k \in 1..Len(Node(v).neighbors) |->
             messages.precision[<<Node(v).neighbors[k], v>>]])

\* sum of precision * mean over the messages arriving at v
WeightedMean(v) ==
    QSum([k \in 1..Len(Node(v).neighbors) |->
             QMul(messages.precision[<<Node(v).neighbors[k], v>>],
                  messages.mean[<<Node(v).neighbors[k], v>>])])

\* a call of runIterations has returned after at least one sweep
AfterSweep == AfterRun /\ lastCall.sweeps >= 1 /\ ~lastCall.threw

\* C22: after a sweep of the Gaussian engine every non-evidenced variable
\* whose incoming precisions sum to zero (a variable without neighbors
\* included) has its prior mean and variance as belief, and every other
\* one has variance 1 / (total + 1e-10) and mean (weighted sum of the
\* incoming means) / (total + 1e-10).
C22_BeliefFromPrecision ==
    (IsGaussian /\ AfterSweep) =>
        \A v \in NonEvidenced :
            IF TotalPrecision(v) = Zero
            THEN /\ currentMean[v] = Node(v).mean
                 /\ currentVariance[v] = Node(v).variance
            ELSE /\ currentVariance[v] =
                        QDiv(One, QAdd(TotalPrecision(v), PrecisionGuard))
                 /\ currentMean[v] =
                        QDiv(WeightedMean(v), QAdd(TotalPrecision(v), PrecisionGuard))

\* C22 witness: after two sweeps there are non-evidenced variables of all
\* three sorts: one without neighbors, one whose factors send no precision,
\* and one whose belief has moved away from its prior.
C22_Witness ==
    /\ IsGaussian /\ AfterSweep /\ sweepsTotal >= 2
    /\ \E v \in NonEvidenced : Neighbors(v) = {}
    /\ \E v \in NonEvidenced : Neighbors(v) # {} /\ TotalPrecision(v) = Zero
    /\ \E v \in NonEvidenced :
           /\ QLt(Zero, TotalPrecision(v))
           /\ currentMean[v] # Node(v).mean
           /\ currentVariance[v] # Node(v).variance

----------------------------------------------------------------------------
(* Further properties of construction, stated under SpecNorm *)

\* C23: after construction (both engines, every input edge list, repeated
\* and reversed pairs included) no neighbor list holds the same node twice.
C23_NeighborsWithoutDuplicates ==
    Constructed =>
        \A a \in Ids : \A p, q \in 1..Len(Node(a).neighbors) :
            Node(a).neighbors[p] = Node(a).neighbors[q] => p = q

----------------------------------------------------------------------------
(* Properties of the log-potential, stated under SpecZero *)

\* the assignments of factor f's arguments
Assignments(f) == DOMAIN Node(f).potential

\* the message of a run that has just swept comes from the factors
UnaryFactors == {f \in Ids : IsFactor(f) /\ Len(Node(f).neighbors) = 1}

\* C24: for any two assignments x, y of a discrete factor with
\* potential(x) <= potential(y), logPotential(x) <= logPotential(y); and
\* after a sweep the message of a unary factor to its variable gives a value
\* of potential 0 no more weight than a value of positive potential.
C24_LogPotentialOrderPreserving ==
    IsBayes =>
        /\ \A f \in Ids : IsFactor(f) =>
              \A x, y \in Assignments(f) :
                  ~QLt(Node(f).potential[y], Node(f).potential[x]) =>
                      ~QLt(Exp(logPotential(Node(f), y)), Exp(logPotential(Node(f), x)))
        /\ (AfterSweep /\ DOMAIN evidence = {}) =>
              \A f \in UnaryFactors :
                  \A x, y \in Assignments(f) :
                      (Node(f).potential[x] = Zero /\ QLt(Zero, Node(f).potential[y])) =>
                          ~QLt(messages[<<f, Node(f).neighbors[1]>>][y[1] + 1],
                               messages[<<f, Node(f).neighbors[1]>>][x[1] + 1])

====
